---- MODULE Spec2Model ----
(***************************************************************************)
(* A model of src/app/commands/__inti__.py: the command registry           *)
(* (CommandHandler), plugin discovery (App.load_plugins and                *)
(* App.register_plugin_commands) and the dispatch loop (App.start).        *)
(*                                                                         *)
(* Text (input lines, operation keys, command results) is a sequence of    *)
(* one-character strings, so that str.strip() and str.lower() are computed *)
(* and not assumed.  A logging call is a record [level, msg, arg]: msg is  *)
(* the message template of the call and arg the text formatted into it.    *)
(***************************************************************************)
EXTENDS Naturals, Sequences, FiniteSets

VARIABLES
    root,        \* the plugin root on disk: [exists, modules]
    commands,    \* CommandHandler.commands: operation key -> command instance
    nextId,      \* identity of the next command instance constructed
    state,       \* "Constructed", "Discovering", "Running", "Terminated"; "Handler" when the registry is driven directly
    scanPos,     \* position of load_plugins' for loop in root.modules
    exitStatus,  \* <<>> while the process runs, <<n>> once it ended with status n
    fault,       \* the exception that ended the process uncaught, or "none"
    log,         \* the logging calls made so far
    out,         \* the texts printed to standard output so far
    event,       \* what the last loop iteration read: [kind, line]
    invoked,     \* the command instances whose execute() the last dispatch called
    result,      \* what the last execute_command call did: [kind, value]
    nRead,       \* number of reads of standard input so far
    registered,  \* history: key -> the instances passed to register_command for it, in call order
    nOps,        \* number of direct CommandHandler calls so far
    typed,       \* history: the lines input() returned, in order
    environ,     \* os.environ when the process starts
    settings     \* App.settings

vars == <<root, commands, nextId, state, scanPos, exitStatus, fault, log, out,
          event, invoked, result, nRead, registered, nOps, typed, environ, settings>>

----------------------------------------------------------------------------
(* Bounds of the model *)

\* members a plugin module exports (the length of dir(plugin_module)), in runs
\* of the whole program
MaxMembers == 1
\* the same, in runs of discovery alone
MaxMembersDiscovery == 2
\* reads of standard input in one run of the loop
MaxInputs == 2
\* direct register_command / execute_command calls on one CommandHandler
MaxOps == 4
\* register_command calls made on app.command_handler before app.start()
MaxPreset == 2
\* lines read by the loop of the application whose plugin root holds 'greet'
MaxScript == 3

----------------------------------------------------------------------------
(* Text *)

Whitespace == {" ", "\t"}

EXIT == <<"e", "x", "i", "t">>
HELLO == <<"h", "e", "l", "l", "o">>
BYE == <<"b", "y", "e">>

\* str.lower() on one character of the model's alphabet
LowerChar(c) ==
    CASE c = "E" -> "e"
      [] c = "X" -> "x"
      [] c = "I" -> "i"
      [] c = "T" -> "t"
      [] c = "G" -> "g"
      [] OTHER -> c

Lower(s) == [i \in 1..Len(s) |-> LowerChar(s[i])]

RECURSIVE LStrip(_)
LStrip(s) ==
    IF s # <<>> /\ Head(s) \in Whitespace THEN LStrip(Tail(s)) ELSE s

RECURSIVE RStrip(_)
RStrip(s) ==
    IF s # <<>> /\ s[Len(s)] \in Whitespace
    THEN RStrip(SubSeq(s, 1, Len(s) - 1))
    ELSE s

\* No strip() at all
StripNone(s) == s

Strip(s) == RStrip(LStrip(s))

\* f"No such command: {operation}"
\* A message that leaves the operation out
NoSuchCommandUnnamed(operation) ==
    <<"N", "o", " ", "s", "u", "c", "h", " ", "c", "o", "m", "m", "a", "n", "d">>

NoSuchCommand(operation) ==
    <<"N", "o", " ", "s", "u", "c", "h", " ", "c", "o", "m", "m", "a", "n", "d", ":", " ">>
        \o operation

LogRec(level, msg, arg) == [level |-> level, msg |-> msg, arg |-> arg]

----------------------------------------------------------------------------
(* Commands supplied by plugins *)

\* What a plugin module can export: the abstract base Command itself, concrete
\* subclasses (Hello, Bye, Boom), a subclass that does not implement execute
\* (Abstract), a class unrelated to Command (OtherType), a non-class (value).
Items == {"Command", "Hello", "Bye", "Boom", "Abstract", "OtherType", "value"}


IsType(item) == item # "value"
IsSubclassOfCommand(item) == item \in {"Command", "Hello", "Bye", "Boom", "Abstract"}
\* item(): abc refuses to instantiate a class with an abstract method left, and
\* a non-class is not constructed
Instantiable(item) == item \in {"Hello", "Bye", "Boom", "OtherType"}

ConcreteClasses == {"Hello", "Bye", "Boom"}

\* A class that hands out one shared instance (a singleton __new__)
InstanceShared(cls, id) == [cls |-> cls, id |-> 0]

Instance(cls, id) == [cls |-> cls, id |-> id]

\* command.execute(): what the plugin's own code does
Execute(command) ==
    CASE command.cls = "Hello" -> [raised |-> FALSE, value |-> HELLO, exc |-> "none"]
      [] command.cls = "Bye" -> [raised |-> FALSE, value |-> BYE, exc |-> "none"]
      [] OTHER -> [raised |-> TRUE, value |-> <<>>, exc |-> "RuntimeError"]

----------------------------------------------------------------------------
(* CommandHandler *)

NoCommands == <<>>

\* A register_command that keeps an existing binding (dict.setdefault)
RegisterCommandKeepFirst(cmds, operation, command) ==
    [k \in DOMAIN cmds \cup {operation} |->
        IF k \in DOMAIN cmds THEN cmds[k] ELSE command]

\* A register_command that rebuilds the dict: self.commands = {operation: command}
RegisterCommandReplaceAll(cmds, operation, command) ==
    [k \in {operation} |-> command]

RegisterCommand(cmds, operation, command) ==
    [k \in DOMAIN cmds \cup {operation} |->
        IF k = operation THEN command ELSE cmds[k]]

\* A lookup that lowers the key first: self.commands.get(operation.lower())
GetCaseInsensitive(cmds, operation) ==
    IF Lower(operation) \in DOMAIN cmds THEN <<cmds[Lower(operation)]>> ELSE <<>>

\* self.commands.get(operation): <<>> stands for None
Get(cmds, operation) ==
    IF operation \in DOMAIN cmds THEN <<cmds[operation]>> ELSE <<>>

\* An execute_command without the return in front of command.execute(): the
\* command runs and control falls through to the error path
ExecuteCommandFallsThrough(cmds, operation) ==
    LET command == Get(cmds, operation) IN
    IF command # <<>> /\ Execute(command[1]).raised
    THEN [kind |-> "raise", value |-> <<>>, exc |-> Execute(command[1]).exc,
          invoked |-> command, logs |-> <<>>]
    ELSE [kind |-> "return",
          value |-> NoSuchCommand(operation),
          exc |-> "none",
          invoked |-> command,
          logs |-> <<LogRec("ERROR", "No such command: {operation}", operation)>>]

\* An execute_command that indexes the dict (self.commands[operation]): a
\* missing key raises KeyError
ExecuteCommandKeyError(cmds, operation) ==
    LET command == Get(cmds, operation) IN
    IF command # <<>>
    THEN LET r == Execute(command[1]) IN
         [kind |-> IF r.raised THEN "raise" ELSE "return",
          value |-> r.value,
          exc |-> r.exc,
          invoked |-> command,
          logs |-> <<>>]
    ELSE [kind |-> "raise", value |-> <<>>, exc |-> "KeyError",
          invoked |-> <<>>, logs |-> <<>>]

ExecuteCommand(cmds, operation) ==
    LET command == Get(cmds, operation) IN
    IF command # <<>>
    THEN LET r == Execute(command[1]) IN
         [kind |-> IF r.raised THEN "raise" ELSE "return",
          value |-> r.value,
          exc |-> r.exc,
          invoked |-> command,
          logs |-> <<>>]
    ELSE [kind |-> "return",
          value |-> NoSuchCommand(operation),
          exc |-> "none",
          invoked |-> <<>>,
          logs |-> <<LogRec("ERROR", "No such command: {operation}", operation)>>]

----------------------------------------------------------------------------
(* The plugin root: what pkgutil.iter_modules(['app/plugins']) yields *)

G == <<"g">>

\* The names a module of the plugin root can have, in the order iter_modules
\* yields them (sorted by file name).
ModuleNames == <<EXIT, G>>

MemberLists(max) == UNION {[1..n -> Items] : n \in 0..max}

\* A module of the root: a plain module (never imported by load_plugins), a
\* package whose import raises, or a package that imports and exports members
\* (in the order of dir(plugin_module)).
ModuleDescs(name, max) ==
    {[name |-> name, is_pkg |-> FALSE, load |-> "ok", members |-> <<>>]}
    \cup {[name |-> name, is_pkg |-> TRUE, load |-> l, members |-> <<>>] :
            l \in {"ImportError", "SyntaxError"}}
    \cup {[name |-> name, is_pkg |-> TRUE, load |-> "ok", members |-> m] :
            m \in MemberLists(max)}

RECURSIVE ListingsFrom(_, _)
ListingsFrom(i, max) ==
    IF i > Len(ModuleNames) THEN {<<>>}
    ELSE LET rest == ListingsFrom(i + 1, max) IN
         rest \cup {<<d>> \o r : d \in ModuleDescs(ModuleNames[i], max), r \in rest}

Roots(max) ==
    {[exists |-> FALSE, modules |-> <<>>]}
    \cup {[exists |-> TRUE, modules |-> ms] : ms \in ListingsFrom(1, max)}

----------------------------------------------------------------------------
(* App: discovery *)

\* A test without issubclass(item, Command)
QualifiesAnyType(item) ==
    IsType(item) /\ item # "Command"

\* isinstance(item, type) and issubclass(item, Command) and item is not Command
Qualifies(item) ==
    IsType(item) /\ IsSubclassOfCommand(item) /\ item # "Command"

\* A register_plugin_commands that leaves its loop after the first registration
RECURSIVE RegisterPluginCommandsFirstOnly(_, _, _, _, _)
RegisterPluginCommandsFirstOnly(members, i, plugin_name, cmds, id) ==
    IF i > Len(members)
    THEN [commands |-> cmds, nextId |-> id, logs |-> <<>>, fault |-> "none"]
    ELSE IF ~Qualifies(members[i])
    THEN RegisterPluginCommandsFirstOnly(members, i + 1, plugin_name, cmds, id)
    ELSE IF ~Instantiable(members[i])
    THEN [commands |-> cmds, nextId |-> id, logs |-> <<>>, fault |-> "TypeError"]
    ELSE [commands |-> RegisterCommand(cmds, plugin_name, Instance(members[i], id)),
          nextId |-> id + 1,
          logs |-> <<LogRec("INFO", "Command '{plugin_name}' from plugin '{plugin_name}' registered.",
                            plugin_name)>>,
          fault |-> "none"]

\* register_plugin_commands from member i on: the registry, the next instance
\* identity, the logging calls made, and the exception item() raised, if any
RECURSIVE RegisterPluginCommands(_, _, _, _, _)
RegisterPluginCommands(members, i, plugin_name, cmds, id) ==
    IF i > Len(members)
    THEN [commands |-> cmds, nextId |-> id, logs |-> <<>>, fault |-> "none"]
    ELSE IF ~Qualifies(members[i])
    THEN RegisterPluginCommands(members, i + 1, plugin_name, cmds, id)
    ELSE IF ~Instantiable(members[i])
    THEN [commands |-> cmds, nextId |-> id, logs |-> <<>>, fault |-> "TypeError"]
    ELSE LET rest == RegisterPluginCommands(members, i + 1, plugin_name,
                        RegisterCommand(cmds, plugin_name, Instance(members[i], id)),
                        id + 1)
         IN [rest EXCEPT !.logs =
                <<LogRec("INFO", "Command '{plugin_name}' from plugin '{plugin_name}' registered.",
                         plugin_name)>> \o @]

----------------------------------------------------------------------------
(* App: construction *)

NoEnviron == <<>>

\* {key: value for key, value in os.environ.items()}
LoadEnvironmentVariables(env) == [key \in DOMAIN env |-> env[key]]

\* An assignment in place of setdefault: map[key] = value
SetDefaultOverwrites(map, key, value) ==
    [k \in DOMAIN map \cup {key} |-> IF k = key THEN value ELSE map[k]]

\* dict.setdefault(key, value)
SetDefault(map, key, value) ==
    [k \in DOMAIN map \cup {key} |-> IF k \in DOMAIN map THEN map[k] ELSE value]

\* self.settings after App.__init__
AppSettings(env) ==
    SetDefault(LoadEnvironmentVariables(env), "ENVIRONMENT", "PRODUCTION")

ConstructionLog ==
    <<LogRec("INFO", "Logging configured.", <<>>),
      LogRec("INFO", "Environment variables loaded.", <<>>)>>

NoEvent == [kind |-> "none", line |-> <<>>]
NoResult == [kind |-> "none", value |-> <<>>]

\* The state after App() returned, for a plugin root among roots
Constructed(roots) ==
    /\ root \in roots
    /\ commands = NoCommands
    /\ nextId = 1
    /\ state = "Constructed"
    /\ scanPos = 1
    /\ exitStatus = <<>>
    /\ fault = "none"
    /\ log = ConstructionLog
    /\ out = <<>>
    /\ event = NoEvent
    /\ invoked = <<>>
    /\ result = NoResult
    /\ nRead = 0
    /\ registered = <<>>
    /\ nOps = 0
    /\ typed = <<>>
    /\ environ = NoEnviron
    /\ settings = AppSettings(environ)

\* A load_plugins without the os.path.exists check: listing a missing
\* directory raises
LoadPluginsRaises ==
    /\ state = "Constructed"
    /\ IF root.exists
       THEN /\ state' = "Discovering"
            /\ UNCHANGED <<exitStatus, fault>>
       ELSE /\ state' = "Terminated"
            /\ exitStatus' = <<1>>
            /\ fault' = "FileNotFoundError"
    /\ UNCHANGED <<root, commands, nextId, scanPos, log, out,
                   event, invoked, result, nRead, registered, nOps, typed, environ, settings>>

\* start() calls load_plugins(): the check that the plugin root exists
LoadPlugins ==
    /\ state = "Constructed"
    /\ state' = "Discovering"
    /\ IF root.exists
       THEN log' = log
       ELSE log' = Append(log, LogRec("WARNING", "Plugins directory '{plugins_path}' not found.", <<>>))
    /\ UNCHANGED <<root, commands, nextId, scanPos, exitStatus, fault, out,
                   event, invoked, result, nRead, registered, nOps, typed, environ, settings>>

\* One iteration of load_plugins' for loop
ScanModule ==
    /\ state = "Discovering"
    /\ scanPos <= Len(root.modules)
    /\ LET m == root.modules[scanPos]
           r == RegisterPluginCommands(m.members, 1, m.name, commands, nextId)
       IN
       IF ~m.is_pkg
       THEN /\ scanPos' = scanPos + 1
            /\ UNCHANGED <<commands, nextId, state, exitStatus, fault, log>>
       ELSE IF m.load = "ImportError"
       THEN /\ scanPos' = scanPos + 1
            /\ log' = Append(log, LogRec("ERROR", "Error importing plugin {plugin_name}: {e}", m.name))
            /\ UNCHANGED <<commands, nextId, state, exitStatus, fault>>
       ELSE IF m.load # "ok"
       THEN \* not an ImportError: nothing in load_plugins or start catches it
            /\ state' = "Terminated"
            /\ exitStatus' = <<1>>
            /\ fault' = m.load
            /\ UNCHANGED <<commands, nextId, scanPos, log>>
       ELSE /\ commands' = r.commands
            /\ nextId' = r.nextId
            /\ log' = log \o r.logs
            /\ IF r.fault = "none"
               THEN /\ scanPos' = scanPos + 1
                    /\ UNCHANGED <<state, exitStatus, fault>>
               ELSE /\ state' = "Terminated"
                    /\ exitStatus' = <<1>>
                    /\ fault' = r.fault
                    /\ UNCHANGED scanPos
    /\ UNCHANGED <<root, out, event, invoked, result, nRead, registered, nOps, typed, environ, settings>>

\* A start() whose loop does not wait for the end of the scan
EnterLoopEarly ==
    /\ state = "Discovering"
    /\ state' = "Running"
    /\ log' = Append(log, LogRec("INFO", "Application started. Type 'exit' to exit.", <<>>))
    /\ UNCHANGED <<root, commands, nextId, scanPos, exitStatus, fault, out,
                   event, invoked, result, nRead, registered, nOps, typed, environ, settings>>

\* load_plugins returned: start() logs and enters its loop
EnterLoop ==
    /\ state = "Discovering"
    /\ scanPos > Len(root.modules)
    /\ state' = "Running"
    /\ log' = Append(log, LogRec("INFO", "Application started. Type 'exit' to exit.", <<>>))
    /\ UNCHANGED <<root, commands, nextId, scanPos, exitStatus, fault, out,
                   event, invoked, result, nRead, registered, nOps, typed, environ, settings>>

----------------------------------------------------------------------------
(* App: the dispatch loop *)

\* The lines the operator types
Lines ==
    {EXIT,
     <<" ", "E", "x", "i", "T", "\t">>,
     G,
     <<"G">>,
     <<" ", "g", " ">>,
     <<"u">>,
     <<>>}

ShutdownLog == LogRec("INFO", "Application shutdown.", <<>>)

\* A comparison without .lower()
IsSentinelCaseSensitive(cmd_input) == cmd_input = EXIT

\* cmd_input.lower() == 'exit'
IsSentinel(cmd_input) == Lower(cmd_input) = EXIT

\* One iteration of the while loop that reads a line: what it does to the
\* process, the log and standard output
Iteration(line) ==
    /\ state = "Running"
    /\ nRead' = nRead + 1
    /\ typed' = Append(typed, line)
    /\ event' = [kind |-> "line", line |-> line]
    /\ LET cmd_input == Strip(line)
           r == ExecuteCommand(commands, cmd_input)
       IN
       IF IsSentinel(cmd_input)
       THEN \* sys.exit(0): SystemExit passes the except clause, finally runs
            /\ log' = log \o <<LogRec("INFO", "Application exit.", <<>>), ShutdownLog>>
            /\ state' = "Terminated"
            /\ exitStatus' = <<0>>
            /\ invoked' = <<>>
            /\ result' = NoResult
            /\ UNCHANGED <<fault, out>>
       ELSE IF r.kind = "raise"
       THEN \* execute() raised: no handler but finally
            /\ log' = log \o r.logs \o <<ShutdownLog>>
            /\ state' = "Terminated"
            /\ exitStatus' = <<1>>
            /\ fault' = r.exc
            /\ invoked' = r.invoked
            /\ result' = [kind |-> "raise", value |-> <<>>]
            /\ UNCHANGED out
       ELSE /\ log' = log \o r.logs
            /\ out' = Append(out, r.value)
            /\ invoked' = r.invoked
            /\ result' = [kind |-> "return", value |-> r.value]
            /\ UNCHANGED <<state, exitStatus, fault>>

\* An iteration whose lookup is self.commands.pop(operation, None)
ReadLinePops(line) ==
    /\ Iteration(line)
    /\ commands' = [k \in DOMAIN commands \ {Strip(line)} |-> commands[k]]
    /\ UNCHANGED <<root, nextId, scanPos, registered, nOps, environ, settings>>

\* One iteration of the while loop that reads a line; nothing in it writes the
\* registry
ReadLine(line) ==
    /\ Iteration(line)
    /\ UNCHANGED <<root, commands, nextId, scanPos, registered, nOps, environ, settings>>

\* input() raises KeyboardInterrupt; the handler calls ys.exit(0), and ys is
\* not defined
Interrupt ==
    /\ state = "Running"
    /\ event' = [kind |-> "interrupt", line |-> <<>>]
    /\ log' = log \o <<LogRec("INFO", "Application interrupted and exiting gracefully.", <<>>),
                       ShutdownLog>>
    /\ state' = "Terminated"
    /\ exitStatus' = <<1>>
    /\ fault' = "NameError"
    /\ invoked' = <<>>
    /\ result' = NoResult
    /\ UNCHANGED <<root, commands, nextId, scanPos, out, nRead, registered, nOps, typed, environ, settings>>

\* A start() that logs the shutdown after the try statement, not in finally
EndOfInputNoFinally ==
    /\ state = "Running"
    /\ event' = [kind |-> "eof", line |-> <<>>]
    /\ state' = "Terminated"
    /\ exitStatus' = <<1>>
    /\ fault' = "EOFError"
    /\ invoked' = <<>>
    /\ result' = NoResult
    /\ UNCHANGED <<root, commands, nextId, scanPos, log, out, nRead, registered, nOps,
                   typed, environ, settings>>

\* input() raises EOFError at the end of standard input
EndOfInput ==
    /\ state = "Running"
    /\ event' = [kind |-> "eof", line |-> <<>>]
    /\ log' = Append(log, ShutdownLog)
    /\ state' = "Terminated"
    /\ exitStatus' = <<1>>
    /\ fault' = "EOFError"
    /\ invoked' = <<>>
    /\ result' = NoResult
    /\ UNCHANGED <<root, commands, nextId, scanPos, out, nRead, registered, nOps, typed, environ, settings>>

Init == Constructed(Roots(MaxMembers))

Next ==
    \/ LoadPlugins
    \/ ScanModule
    \/ EnterLoop
    \/ \E line \in Lines : nRead < MaxInputs /\ ReadLine(line)
    \/ Interrupt
    \/ EndOfInput

Spec == Init /\ [][Next]_vars

----------------------------------------------------------------------------
(* Discovery alone: load_plugins over plugin modules with more members *)

InitDiscovery == Constructed(Roots(MaxMembersDiscovery))

NextDiscovery ==
    \/ LoadPlugins
    \/ ScanModule
    \/ EnterLoop

SpecDiscovery == InitDiscovery /\ [][NextDiscovery]_vars

----------------------------------------------------------------------------
(* CommandHandler driven directly: any sequence of register_command and
   execute_command calls on one handler *)

HandlerKeys == {G, <<"h">>, <<>>}

InitHandler ==
    /\ root = [exists |-> FALSE, modules |-> <<>>]
    /\ commands = NoCommands
    /\ nextId = 1
    /\ state = "Handler"
    /\ scanPos = 1
    /\ exitStatus = <<>>
    /\ fault = "none"
    /\ log = <<>>
    /\ out = <<>>
    /\ event = NoEvent
    /\ invoked = <<>>
    /\ result = NoResult
    /\ nRead = 0
    /\ registered = <<>>
    /\ nOps = 0
    /\ typed = <<>>
    /\ environ = NoEnviron
    /\ settings = NoEnviron

\* handler.register_command(operation, cls())
Register(operation, cls) ==
    /\ state = "Handler"
    /\ nOps < MaxOps
    /\ nOps' = nOps + 1
    /\ commands' = RegisterCommand(commands, operation, Instance(cls, nextId))
    /\ registered' = [k \in DOMAIN registered \cup {operation} |->
                        IF k \in DOMAIN registered
                        THEN IF k = operation
                             THEN Append(registered[k], Instance(cls, nextId))
                             ELSE registered[k]
                        ELSE <<Instance(cls, nextId)>>]
    /\ nextId' = nextId + 1
    /\ event' = [kind |-> "register", line |-> operation]
    /\ invoked' = <<>>
    /\ result' = NoResult
    /\ UNCHANGED <<root, state, scanPos, exitStatus, fault, log, out, nRead,
                   typed, environ, settings>>

\* handler.execute_command(operation)
Dispatch(operation) ==
    /\ state = "Handler"
    /\ nOps < MaxOps
    /\ nOps' = nOps + 1
    /\ LET r == ExecuteCommand(commands, operation) IN
       /\ log' = log \o r.logs
       /\ invoked' = r.invoked
       /\ result' = [kind |-> r.kind, value |-> r.value]
    /\ event' = [kind |-> "execute", line |-> operation]
    /\ UNCHANGED <<root, commands, nextId, state, scanPos, exitStatus, fault,
                   out, nRead, registered, typed, environ, settings>>

NextHandler ==
    \/ \E operation \in HandlerKeys, cls \in ConcreteClasses : Register(operation, cls)
    \/ \E operation \in HandlerKeys : Dispatch(operation)

SpecHandler == InitHandler /\ [][NextHandler]_vars

----------------------------------------------------------------------------
(* Construction of the App from the process environment *)

EnvNames == {"ENVIRONMENT", "HOME", "LANG"}
EnvValues == {"PRODUCTION", "DEVELOPMENT", "C"}

\* os.environ at startup: any of the names, each with any of the values
Environs == UNION {[D -> EnvValues] : D \in SUBSET EnvNames}

\* the process before App() is called
InitConstruct ==
    /\ root = [exists |-> FALSE, modules |-> <<>>]
    /\ commands = NoCommands
    /\ nextId = 1
    /\ state = "Boot"
    /\ scanPos = 1
    /\ exitStatus = <<>>
    /\ fault = "none"
    /\ log = <<>>
    /\ out = <<>>
    /\ event = NoEvent
    /\ invoked = <<>>
    /\ result = NoResult
    /\ nRead = 0
    /\ registered = <<>>
    /\ nOps = 0
    /\ typed = <<>>
    /\ environ \in Environs
    /\ settings = NoEnviron

\* App.__init__
AppInit ==
    /\ state = "Boot"
    /\ log' = ConstructionLog
    /\ settings' = AppSettings(environ)
    /\ commands' = NoCommands
    /\ state' = "Constructed"
    /\ UNCHANGED <<root, nextId, scanPos, exitStatus, fault, out, event, invoked,
                   result, nRead, registered, nOps, typed, environ>>

NextConstruct == AppInit

SpecConstruct == InitConstruct /\ [][NextConstruct]_vars

----------------------------------------------------------------------------
(* The application over a plugin root that holds the single package 'greet',
   whose one command returns "hello" *)

GREET == <<"g", "r", "e", "e", "t">>
UNKNOWN_KEY == <<"u", "n", "k", "n", "o", "w", "n", "_", "k", "e", "y">>

GreetRoot ==
    [exists |-> TRUE,
     modules |-> <<[name |-> GREET, is_pkg |-> TRUE, load |-> "ok",
                    members |-> <<"Command", "Hello">>]>>]

GreetLines ==
    {GREET,
     <<" ">> \o GREET \o <<" ">>,
     UNKNOWN_KEY,
     EXIT}

InitGreet == Constructed({GreetRoot})

NextGreet ==
    \/ LoadPlugins
    \/ ScanModule
    \/ EnterLoop
    \/ \E line \in GreetLines : nRead < MaxScript /\ ReadLine(line)
    \/ Interrupt
    \/ EndOfInput

SpecGreet == InitGreet /\ [][NextGreet]_vars

----------------------------------------------------------------------------
(* An App whose registry is filled by its caller before start():
   app = App(); app.command_handler.register_command(k, cls()); app.start() *)

PresetKeys == {<<>>, <<"g", " ">>, G}

PresetRoots ==
    {[exists |-> FALSE, modules |-> <<>>],
     [exists |-> TRUE,
      modules |-> <<[name |-> G, is_pkg |-> TRUE, load |-> "ok",
                     members |-> <<"Command", "Bye">>]>>]}

PresetLines ==
    {<<>>,
     <<" ", "\t">>,
     G,
     <<"G">>,
     <<"g", " ">>,
     EXIT}

InitPreset == Constructed(PresetRoots)

\* app.command_handler.register_command(operation, cls()) before app.start()
Preregister(operation, cls) ==
    /\ state = "Constructed"
    /\ nOps < MaxPreset
    /\ nOps' = nOps + 1
    /\ commands' = RegisterCommand(commands, operation, Instance(cls, nextId))
    /\ registered' = [k \in DOMAIN registered \cup {operation} |->
                        IF k \in DOMAIN registered
                        THEN IF k = operation
                             THEN Append(registered[k], Instance(cls, nextId))
                             ELSE registered[k]
                        ELSE <<Instance(cls, nextId)>>]
    /\ nextId' = nextId + 1
    /\ UNCHANGED <<root, state, scanPos, exitStatus, fault, log, out, event,
                   invoked, result, nRead, typed, environ, settings>>

NextPreset ==
    \/ \E operation \in PresetKeys, cls \in ConcreteClasses : Preregister(operation, cls)
    \/ LoadPlugins
    \/ ScanModule
    \/ EnterLoop
    \/ \E line \in PresetLines : nRead < MaxInputs /\ ReadLine(line)
    \/ Interrupt
    \/ EndOfInput

SpecPreset == InitPreset /\ [][NextPreset]_vars

----------------------------------------------------------------------------
(* Properties of the registry (checked under SpecHandler) *)

Last(s) == s[Len(s)]

\* The text "No such command: k", written out
NotFoundText(k) ==
    <<"N", "o", " ", "s", "u", "c", "h", " ", "c", "o", "m", "m", "a", "n", "d", ":", " ">> \o k

\* C1: after register(k, c) with no later register on k, dispatch(k) invokes
\* exactly c, once, and no other command, and when c.execute() returns a text
\* that text is what dispatch returns.
C1_DispatchInvokesRegistered ==
    (event.kind = "execute" /\ event.line \in DOMAIN registered) =>
        LET c == Last(registered[event.line]) IN
        /\ invoked = <<c>>
        /\ ~Execute(c).raised => result = [kind |-> "return", value |-> Execute(c).value]

C1_Witness ==
    /\ event.kind = "execute"
    /\ event.line \in DOMAIN registered
    /\ Cardinality(DOMAIN registered) >= 2
    /\ result = [kind |-> "return", value |-> HELLO]

\* C2: dispatch(k) of a key never registered returns the text
\* "No such command: k", makes one logging call at error severity, invokes no
\* command and does not raise, whatever was registered under other keys.
C2_UnregisteredKeyIsNotFound ==
    [][(event'.kind = "execute" /\ event'.line \notin DOMAIN registered) =>
          /\ result' = [kind |-> "return", value |-> NotFoundText(event'.line)]
          /\ invoked' = <<>>
          /\ log' = Append(log, [level |-> "ERROR",
                                  msg |-> "No such command: {operation}",
                                  arg |-> event'.line])
          /\ commands' = commands]_vars

C2_Witness ==
    /\ event.kind = "execute"
    /\ event.line = <<"h">>
    /\ event.line \notin DOMAIN registered
    /\ Cardinality(DOMAIN registered) >= 2
    /\ invoked = <<>>
    /\ result = [kind |-> "return", value |-> NotFoundText(<<"h">>)]

\* C8: once two or more commands were registered under one key, the key is
\* bound to the one registered last, and a dispatch of the key invokes that one
\* and none of the earlier ones.
C8_LastWriteWins ==
    \A k \in DOMAIN registered :
        Len(registered[k]) >= 2 =>
            /\ k \in DOMAIN commands
            /\ commands[k] = Last(registered[k])
            /\ (event.kind = "execute" /\ event.line = k) =>
                    /\ invoked = <<Last(registered[k])>>
                    /\ \A i \in 1..(Len(registered[k]) - 1) :
                           \A j \in 1..Len(invoked) : invoked[j] # registered[k][i]

C8_Witness ==
    \E k \in DOMAIN registered :
        /\ Len(registered[k]) = 2
        /\ registered[k][1].cls = "Hello"
        /\ registered[k][2].cls = "Bye"
        /\ event.kind = "execute" /\ event.line = k
        /\ result = [kind |-> "return", value |-> BYE]

----------------------------------------------------------------------------
(* Properties of the dispatch loop (checked under Spec) *)

Blank == {" ", "\t"}

\* The line is 'exit' in any letter case between leading and trailing blanks
SentinelLine(line) ==
    \E a \in 0..Len(line) :
        /\ a + 4 <= Len(line)
        /\ \A i \in 1..a : line[i] \in Blank
        /\ \A i \in (a + 5)..Len(line) : line[i] \in Blank
        /\ line[a + 1] \in {"e", "E"}
        /\ line[a + 2] \in {"x", "X"}
        /\ line[a + 3] \in {"i", "I"}
        /\ line[a + 4] \in {"t", "T"}

\* The line without its leading and trailing blanks
Trimmed(line) ==
    LET inked == {i \in 1..Len(line) : line[i] \notin Blank} IN
    IF inked = {} THEN <<>>
    ELSE SubSeq(line,
                CHOOSE i \in inked : \A j \in inked : i <= j,
                CHOOSE i \in inked : \A j \in inked : j <= i)

\* C3 (as claimed): when the command a line dispatches to fails in execute(),
\* the failure comes back as a value, the loop stays in Running and no fault
\* ends the process.
C3_FailureIsReturned ==
    (event.kind = "line" /\ invoked # <<>> /\ Execute(invoked[1]).raised) =>
        /\ state = "Running"
        /\ result.kind = "return"
        /\ fault = "none"

\* C4: a line that is 'exit' in any letter case between blanks ends the loop
\* with exit status 0 and dispatches nothing, and the command registered
\* under the key 'exit', if any, is never invoked by the loop.
C4_SentinelTerminates ==
    /\ (event.kind = "line" /\ SentinelLine(event.line)) =>
          /\ state = "Terminated"
          /\ exitStatus = <<0>>
          /\ fault = "none"
          /\ invoked = <<>>
    /\ EXIT \in DOMAIN commands =>
          \A j \in 1..Len(invoked) : invoked[j] # commands[EXIT]

C4_Witness ==
    /\ EXIT \in DOMAIN commands
    /\ nRead = 2
    /\ event = [kind |-> "line", line |-> <<" ", "E", "x", "i", "T", "\t">>]
    /\ state = "Terminated"
    /\ exitStatus = <<0>>

\* C5 (as claimed): an operator interrupt in the loop ends the process with
\* exit status 0 and no unhandled fault.
C5_InterruptExitsZero ==
    event.kind = "interrupt" =>
        /\ state = "Terminated"
        /\ exitStatus = <<0>>
        /\ fault = "none"

\* C7 (as claimed): the loop leaves Running only on the sentinel or on an
\* interrupt, both with exit status 0; any other line leaves it in Running.
C7_OnlySentinelOrInterruptEnds ==
    event.kind # "none" =>
        /\ state = "Terminated" =>
              /\ \/ event.kind = "interrupt"
                 \/ event.kind = "line" /\ SentinelLine(event.line)
              /\ exitStatus = <<0>>
        /\ (event.kind = "line" /\ ~SentinelLine(event.line)) => state = "Running"

\* C10: with no plugin root, discovery logs one warning, raises nothing and
\* leaves the registry empty; the loop is entered, every line but the sentinel
\* is answered with the no-such-command text for its trimmed key and invokes
\* nothing, and the sentinel ends the loop with status 0.
C10_MissingRootEmptyRegistry ==
    ~root.exists =>
        /\ DOMAIN commands = {}
        /\ state # "Constructed" =>
              Cardinality({i \in 1..Len(log) : log[i].level = "WARNING"}) = 1
        /\ state = "Discovering" => scanPos > Len(root.modules)
        /\ event.kind = "none" => (state # "Terminated" /\ fault = "none")
        /\ event.kind = "line" =>
              IF SentinelLine(event.line)
              THEN state = "Terminated" /\ exitStatus = <<0>>
              ELSE /\ state = "Running"
                   /\ invoked = <<>>
                   /\ result = [kind |-> "return", value |-> NotFoundText(Trimmed(event.line))]
                   /\ Last(out) = NotFoundText(Trimmed(event.line))

C10_Witness ==
    /\ ~root.exists
    /\ nRead = 2
    /\ event = [kind |-> "line", line |-> <<" ", "g", " ">>]
    /\ state = "Running"
    /\ out = <<NotFoundText(<<>>), NotFoundText(G)>>

----------------------------------------------------------------------------
(* Properties of discovery (checked under SpecDiscovery) *)

FailsToLoad(m) == m.is_pkg /\ m.load # "ok"

\* positions of the members that are concrete Command types
ConcreteAt(m) == {i \in 1..Len(m.members) : m.members[i] \in ConcreteClasses}

\* a package that loads and whose Command subclasses can all be instantiated
ValidPackage(m) ==
    /\ m.is_pkg
    /\ m.load = "ok"
    /\ \A i \in 1..Len(m.members) : m.members[i] # "Abstract"

\* C6 (as claimed): a sub-package that fails to load does not abort the pass,
\* is logged by name and gets no binding, and at the end of discovery every
\* other loadable, valid sub-package that exports a command type is registered.
C6_FailedLoadDoesNotAbort ==
    \A p \in 1..Len(root.modules) :
        FailsToLoad(root.modules[p]) =>
            /\ ~(state = "Terminated" /\ scanPos = p)
            /\ scanPos > p =>
                  /\ root.modules[p].name \notin DOMAIN commands
                  /\ \E i \in 1..Len(log) :
                        log[i].level = "ERROR" /\ log[i].arg = root.modules[p].name
            /\ state \in {"Running", "Terminated"} =>
                  \A q \in 1..Len(root.modules) :
                      (q # p /\ ValidPackage(root.modules[q]) /\ ConcreteAt(root.modules[q]) # {})
                          => root.modules[q].name \in DOMAIN commands

\* C9: once the scan of a loadable sub-package that exports two or more
\* command types is over, the registry holds one binding under the
\* sub-package's name, an instance of the last of these types in scan order.
C9_LastQualifyingTypeWins ==
    \A p \in 1..Len(root.modules) :
        LET m == root.modules[p]
            last == CHOOSE i \in ConcreteAt(m) : \A j \in ConcreteAt(m) : j <= i
        IN (m.is_pkg /\ m.load = "ok" /\ Cardinality(ConcreteAt(m)) >= 2 /\ scanPos > p) =>
              /\ m.name \in DOMAIN commands
              /\ commands[m.name].cls = m.members[last]
              \* of the instances constructed for m, only the last one is bound
              /\ LET n == Cardinality(ConcreteAt(m))
                     newest == commands[m.name].id
                 IN /\ newest >= n
                    /\ Cardinality({k \in DOMAIN commands :
                                       commands[k].id \in (newest + 1 - n)..newest}) = 1

C9_Witness ==
    /\ state = "Running"
    /\ Len(root.modules) = 2
    /\ root.modules[2].members = <<"Hello", "Bye">>
    /\ G \in DOMAIN commands
    /\ commands[G].cls = "Bye"

----------------------------------------------------------------------------
(* More properties of the whole program (checked under Spec) *)

ShutdownCalls ==
    {i \in 1..Len(log) :
        log[i] = [level |-> "INFO", msg |-> "Application shutdown.", arg |-> <<>>]}

\* C11: while the loop runs the shutdown message has not been logged, and
\* once the loop was left, by the sentinel, an interrupt, the end of input or a
\* failing command, it has been logged exactly once, as the last logging call.
C11_ShutdownOnEveryLoopExit ==
    /\ state = "Running" => ShutdownCalls = {}
    /\ (state = "Terminated" /\ event.kind # "none") =>
          /\ Cardinality(ShutdownCalls) = 1
          /\ Len(log) \in ShutdownCalls

C11_Witness ==
    /\ state = "Terminated"
    /\ event.kind = "line"
    /\ fault = "RuntimeError"
    /\ nRead = 2
    /\ Cardinality(ShutdownCalls) = 1

\* C13: from the moment the loop runs, no step (a dispatch that succeeds,
\* fails or finds nothing, the sentinel, an interrupt, the end of input)
\* changes the registry's keys or the instance bound to a key.
C13_RegistryReadOnlyInLoop ==
    [][(state = "Running" \/ state = "Terminated") => commands' = commands]_vars

C13_Witness ==
    /\ state = "Running"
    /\ nRead = 2
    /\ DOMAIN commands = {EXIT, G}
    /\ invoked = <<commands[G]>>
    /\ result.kind = "return"

StartedCalls ==
    {i \in 1..Len(log) : log[i].msg = "Application started. Type 'exit' to exit."}

\* C14: nothing is read, printed or dispatched before the discovery pass is
\* over; once a read happened the scan is past the last module of the root; the
\* loop is entered at most once, and a step taken after the loop was entered
\* neither scans a module nor constructs or registers a command.
C14_DiscoveryBeforeLoop ==
    /\ [](/\ state \in {"Constructed", "Discovering"} =>
               (nRead = 0 /\ typed = <<>> /\ event.kind = "none" /\ out = <<>> /\ invoked = <<>>)
          /\ (nRead > 0 \/ event.kind # "none") => scanPos > Len(root.modules)
          /\ state = "Running" => scanPos > Len(root.modules)
          /\ Cardinality(StartedCalls) <= 1)
    /\ [][(state = "Running" \/ nRead > 0) =>
            (scanPos' = scanPos /\ commands' = commands /\ nextId' = nextId
             /\ state' \in {"Running", "Terminated"})]_vars

C14_Witness ==
    /\ Len(root.modules) = 2
    /\ DOMAIN commands = {EXIT, G}
    /\ scanPos = 3
    /\ nRead = 1
    /\ invoked = <<commands[G]>>

----------------------------------------------------------------------------
(* More properties of the registry (checked under SpecHandler) *)

\* C15: the registry of a new handler is empty, no register or dispatch call
\* removes a key from it, and every key ever registered is bound.
C15_KeysOnlyGrow ==
    /\ DOMAIN commands = {}
    /\ [][\A k \in DOMAIN commands : k \in DOMAIN commands']_vars
    /\ [](\A k \in DOMAIN registered : k \in DOMAIN commands)

C15_Witness ==
    /\ nOps = 4
    /\ event.kind = "execute"
    /\ DOMAIN commands = HandlerKeys
    /\ DOMAIN registered = HandlerKeys

----------------------------------------------------------------------------
(* More properties of discovery (checked under SpecDiscovery) *)

RegistrationCalls ==
    {i \in 1..Len(log) :
        log[i].msg = "Command '{plugin_name}' from plugin '{plugin_name}' registered."}

\* C17: in every state of a discovery pass no two keys are bound to the same
\* command instance, and every registration made so far constructed an
\* instance of its own.
C17_NoInstanceUnderTwoKeys ==
    /\ \A k1 \in DOMAIN commands : \A k2 \in DOMAIN commands :
          k1 # k2 => commands[k1] # commands[k2]
    /\ Cardinality(RegistrationCalls) + 1 = nextId
    /\ \A k \in DOMAIN commands : commands[k].id \in 1..Cardinality(RegistrationCalls)

C17_Witness ==
    /\ state = "Running"
    /\ DOMAIN commands = {EXIT, G}
    /\ commands[EXIT].cls = "Hello"
    /\ commands[G].cls = "Hello"
    /\ Cardinality(RegistrationCalls) = 3

\* C19: every key of the registry is the name of a module of the root already
\* scanned that is a package, imported without error and exports a concrete
\* Command subclass; plain modules, packages whose import failed and packages
\* exporting no such class (the abstract Command or not) have no binding.
C19_KeysAreLoadedCommandPackages ==
    /\ \A k \in DOMAIN commands :
          \E p \in 1..Len(root.modules) :
              /\ p <= scanPos
              /\ root.modules[p].name = k
              /\ root.modules[p].is_pkg
              /\ root.modules[p].load = "ok"
              /\ ConcreteAt(root.modules[p]) # {}
    /\ \A p \in 1..Len(root.modules) :
          (\/ ~root.modules[p].is_pkg
           \/ root.modules[p].load # "ok"
           \/ ConcreteAt(root.modules[p]) = {})
              => root.modules[p].name \notin DOMAIN commands

C19_Witness ==
    /\ state = "Running"
    /\ Len(root.modules) = 2
    /\ root.modules[1].is_pkg
    /\ root.modules[1].members = <<"Command", "OtherType">>
    /\ root.modules[2].members = <<"Command", "Bye">>
    /\ DOMAIN commands = {G}

----------------------------------------------------------------------------
(* Properties of the loop over a registry filled by the caller (checked under
   SpecPreset) *)

BlankLine(line) == \A i \in 1..Len(line) : line[i] \in Blank

\* C16 (as claimed): the empty string is accepted as a key, and no input line
\* makes the loop invoke the command bound under it.
C16_EmptyKeyUnreachable ==
    /\ <<>> \in DOMAIN registered =>
          (<<>> \in DOMAIN commands /\ commands[<<>>] = Last(registered[<<>>]))
    /\ (<<>> \in DOMAIN commands /\ event.kind = "line") =>
          \A j \in 1..Len(invoked) : invoked[j] # commands[<<>>]

\* C16 (amended): the empty string is accepted as a key, and the loop invokes
\* the command bound under it on exactly the lines that are empty or hold only
\* blanks.
C16_EmptyKeyReachedByBlankLines ==
    /\ <<>> \in DOMAIN registered =>
          (<<>> \in DOMAIN commands /\ commands[<<>>] = Last(registered[<<>>]))
    /\ (<<>> \in DOMAIN commands /\ event.kind = "line") =>
          (invoked = <<commands[<<>>]>> <=> BlankLine(event.line))

C16_Witness ==
    /\ <<>> \in DOMAIN commands
    /\ event = [kind |-> "line", line |-> <<" ", "\t">>]
    /\ invoked = <<commands[<<>>]>>
    /\ result = [kind |-> "return", value |-> HELLO]

EdgedByBlank(k) == k # <<>> /\ (k[1] \in Blank \/ k[Len(k)] \in Blank)

\* C20: a line that is not the sentinel is looked up by its trimmed text as
\* it stands: a bound key is dispatched to its own instance, a key that is not
\* bound (a registered key in another letter case included) gets the
\* no-such-command text and invokes nothing, and a command bound under a key
\* with a leading or trailing blank is never invoked.
C20_LookupVerbatim ==
    /\ (event.kind = "line" /\ ~SentinelLine(event.line)) =>
          LET key == Trimmed(event.line) IN
          /\ key \in DOMAIN commands => invoked = <<commands[key]>>
          /\ key \notin DOMAIN commands =>
                /\ invoked = <<>>
                /\ result = [kind |-> "return", value |-> NotFoundText(key)]
    /\ \A k \in DOMAIN commands :
          EdgedByBlank(k) => \A j \in 1..Len(invoked) : invoked[j] # commands[k]

C20_Witness ==
    /\ DOMAIN commands = {G, <<"g", " ">>}
    /\ typed = <<<<"g", " ">>, <<"G">>>>
    /\ out = <<HELLO, NotFoundText(<<"G">>)>>
    /\ invoked = <<>>

----------------------------------------------------------------------------
(* End-to-end behaviour over the 'greet' plugin root (checked under SpecGreet) *)

\* the output a non-sentinel line gets
Answer(line) ==
    IF Trimmed(line) = GREET THEN HELLO ELSE NotFoundText(Trimmed(line))

\* C12: the lines greet, unknown_key, exit print "hello", then the
\* no-such-command text naming unknown_key, and end the process with status 0;
\* in general every line before a sentinel gets its answer in order, and the
\* sentinel is the last line read: nothing is printed or dispatched after it.
C12_GreetUnknownExit ==
    /\ typed = <<GREET, UNKNOWN_KEY, EXIT>> =>
          /\ out = <<HELLO, NotFoundText(UNKNOWN_KEY)>>
          /\ state = "Terminated"
          /\ exitStatus = <<0>>
          /\ invoked = <<>>
    /\ \A i \in 1..(Len(typed) - 1) : ~SentinelLine(typed[i])
    /\ (typed # <<>> /\ SentinelLine(Last(typed))) =>
          /\ state = "Terminated"
          /\ exitStatus = <<0>>
          /\ invoked = <<>>
          /\ Len(out) = Len(typed) - 1
    /\ \A i \in 1..Len(out) : out[i] = Answer(typed[i])

C12_Witness ==
    /\ typed = <<GREET, UNKNOWN_KEY, EXIT>>
    /\ out = <<HELLO, NotFoundText(UNKNOWN_KEY)>>
    /\ state = "Terminated"
    /\ exitStatus = <<0>>

----------------------------------------------------------------------------
(* The settings map after construction (checked under SpecConstruct) *)

====
